---- MODULE Spec2Model ----
(***************************************************************************)
(* EPyColl: SortedListSet (sets.py) and OneToOneMap (mapping.py).          *)
(*                                                                         *)
(* SpecMap  - one OneToOneMap and its peer, item assignment and deletion   *)
(*            through either view.                                         *)
(* SpecSet  - one SortedListSet under add, discard and the in operator.    *)
(* SpecIter - one SortedListSet under add / discard with a live iterator.  *)
(* SpecCmp  - two SortedListSet instances compared with <= and ==.         *)
(* SpecWrap - ImmutableMap around a OneToOneMap or around a plain dict.    *)
(* SpecNew  - the constructor of SortedListSet.                            *)
(* SpecScan - s <= other for two sets made from longer, wider collections. *)
(***************************************************************************)
EXTENDS Integers, Sequences, FiniteSets, TLC

VARIABLES
    _forward,   \* OneToOneMap._forward of the map m (m.reverse()._reverse)
    _reverse,   \* OneToOneMap._reverse of the map m (m.reverse()._forward)
    _peer,      \* OneToOneMap._peer of m and of its peer
    wrappers,   \* the ImmutableMap objects, in the order of their creation
    plain,      \* the contents of a plain dict handed to ImmutableMap
    _list,      \* SortedListSet._list of the set s
    modCount,   \* SortedListSet.modCount of s
    _key,       \* SortedListSet._key of s
    changes,    \* history: how many calls have changed _list
    it,         \* the live SortedListSet.Iterator over s, or NoIter
    other,      \* a second SortedListSet: [_list, modCount, _key]
    call        \* the last call made, with its arguments and its outcome

vars == <<_forward, _reverse, _peer, wrappers, plain, _list, modCount, _key,
          changes, it, other, call>>

mapVars == <<_forward, _reverse, _peer>>
wrapVars == <<wrappers, plain>>
setVars == <<_list, modCount, _key, changes, it>>

\* None where an element, a size or a value is expected
None == -1

(***************************************************************************)
(* Bounds.                                                                 *)
(***************************************************************************)
MaxObj == 2         \* keys and values of the map are 0 .. MaxObj
MaxItems == 2       \* pairs handed to the OneToOneMap constructor

(***************************************************************************)
(* Python objects used as keys and values of the map.  EmptyTuple stands   *)
(* for (), the one hashable built-in besides bytes that the % operator     *)
(* accepts as the argument of a format string without conversions.         *)
(***************************************************************************)
EmptyTuple == 0
Objs == 0 .. MaxObj

(***************************************************************************)
(* dict operations.                                                        *)
(***************************************************************************)
EmptyDict == [x \in {} |-> x]

DictSet(d, k, v) == [x \in (DOMAIN d) \cup {k} |-> IF x = k THEN v ELSE d[x]]

DictDel(d, k) == [x \in (DOMAIN d) \ {k} |-> d[x]]

(***************************************************************************)
(* 'text without conversion specifiers' % arg  (mapping.py:232, 239).      *)
(* Python raises TypeError("not all arguments converted during string      *)
(* formatting") unless arg is an empty tuple or a mapping.                 *)
(***************************************************************************)
PercentFormat(arg) == IF arg = EmptyTuple THEN "str" ELSE "TypeError"

\* __setitem__ without the test of line 228
setitem_noValueCheck(F, R, key, value) ==
    IF key \in DOMAIN F /\ F[key] # value
    THEN [outcome |-> "KeyError", F |-> F, R |-> R]
    ELSE [outcome |-> "ok",
          F |-> DictSet(F, key, value),
          R |-> DictSet(R, value, key)]

\* __setitem__ without the write of line 243
setitem_forwardOnly(F, R, key, value) ==
    IF value \in DOMAIN R /\ R[value] # key
    THEN [outcome |-> "ValueError", F |-> F, R |-> R]
    ELSE IF key \in DOMAIN F /\ F[key] # value
    THEN [outcome |-> "KeyError", F |-> F, R |-> R]
    ELSE [outcome |-> "ok", F |-> DictSet(F, key, value), R |-> R]

(***************************************************************************)
(* OneToOneMap.__setitem__ on a view whose stores are F (its _forward)     *)
(* and R (its _reverse).                                                   *)
(***************************************************************************)
setitem(F, R, key, value) ==
    IF value \in DOMAIN R /\ R[value] # key
    THEN [outcome |-> IF PercentFormat(key) = "TypeError"
                      THEN "TypeError" ELSE "ValueError",
          F |-> F, R |-> R]
    ELSE IF key \in DOMAIN F /\ F[key] # value
    THEN [outcome |-> IF PercentFormat(value) = "TypeError"
                      THEN "TypeError" ELSE "KeyError",
          F |-> F, R |-> R]
    ELSE [outcome |-> "ok",
          F |-> DictSet(F, key, value),
          R |-> DictSet(R, value, key)]

\* __delitem__ without the removal of line 247
delitem_forwardOnly(F, R, key) ==
    IF key \notin DOMAIN F
    THEN [outcome |-> "KeyError", F |-> F, R |-> R]
    ELSE [outcome |-> "ok", F |-> DictDel(F, key), R |-> R]

\* __delitem__ that ignores an absent key, as dict.pop(key, None) would
delitem_lenient(F, R, key) ==
    IF key \notin DOMAIN F
    THEN [outcome |-> "ok", F |-> F, R |-> R]
    ELSE [outcome |-> "ok", F |-> DictDel(F, key), R |-> DictDel(R, F[key])]

(***************************************************************************)
(* OneToOneMap.__delitem__ on a view with stores F and R.  Each of the     *)
(* three statements raises KeyError on an absent key and ends the call.    *)
(***************************************************************************)
delitem(F, R, key) ==
    IF key \notin DOMAIN F
    THEN [outcome |-> "KeyError", F |-> F, R |-> R]
    ELSE LET value == F[key] IN
         IF value \notin DOMAIN R
         THEN [outcome |-> "KeyError", F |-> F, R |-> R]
         ELSE [outcome |-> "ok",
               F |-> DictDel(F, key),
               R |-> DictDel(R, value)]

(***************************************************************************)
(* OneToOneMap.__init__(mapping): the pairs of items are assigned in       *)
(* order; an assignment that raises ends the construction.                 *)
(***************************************************************************)
RECURSIVE initItems(_, _, _)
initItems(F, R, items) ==
    IF items = <<>>
    THEN [outcome |-> "ok", F |-> F, R |-> R]
    ELSE LET r == setitem(F, R, Head(items)[1], Head(items)[2]) IN
         IF r.outcome # "ok" THEN r
         ELSE initItems(r.F, r.R, Tail(items))

OneToOneMap(items) == initItems(EmptyDict, EmptyDict, items)

(***************************************************************************)
(* The two views.  The peer is built by OneToOneMap(_peer=self): its       *)
(* _forward is m._reverse and its _reverse is m._forward (the same dicts). *)
(***************************************************************************)
Views == {"m", "peer"}

\* lines 197-199: m._peer is the new OneToOneMap(_peer=m), whose _peer is m
initPeer == [view \in Views |-> IF view = "m" THEN "peer" ELSE "m"]

\* a reverse() that returns the object it is called on
reverse_self(view) == view

\* OneToOneMap.reverse
reverse(view) == _peer[view]

Forward(view) == IF view = "m" THEN _forward ELSE _reverse

Reverse(view) == IF view = "m" THEN _reverse ELSE _forward

len(view) == Cardinality(DOMAIN Forward(view))

NoCall == [op |-> "None"]

ItemSeqs == UNION {[1 .. n -> Objs \X Objs] : n \in 0 .. MaxItems}

InitMapState ==
    /\ \E items \in ItemSeqs :
          LET r == OneToOneMap(items) IN
          /\ r.outcome = "ok"
          /\ _forward = r.F
          /\ _reverse = r.R
    /\ _peer = initPeer

\* view[key] = value
SetItem(view, key, value) ==
    LET r == setitem(Forward(view), Reverse(view), key, value) IN
    /\ _forward' = IF view = "m" THEN r.F ELSE r.R
    /\ _reverse' = IF view = "m" THEN r.R ELSE r.F
    /\ call' = [op |-> "setitem", view |-> view, key |-> key,
                 value |-> value, outcome |-> r.outcome,
                 F |-> Forward(view), R |-> Reverse(view)]

\* del view[key]
DelItem(view, key) ==
    LET r == delitem(Forward(view), Reverse(view), key) IN
    /\ _forward' = IF view = "m" THEN r.F ELSE r.R
    /\ _reverse' = IF view = "m" THEN r.R ELSE r.F
    /\ call' = [op |-> "delitem", view |-> view, key |-> key,
                 value |-> None, outcome |-> r.outcome,
                 F |-> Forward(view), R |-> Reverse(view)]

MapSetItem ==
    /\ \E view \in Views, key \in Objs, value \in Objs :
          SetItem(view, key, value)
    /\ UNCHANGED <<_peer, wrapVars, setVars, other>>

MapDelItem ==
    /\ \E view \in Views, key \in Objs : DelItem(view, key)
    /\ UNCHANGED <<_peer, wrapVars, setVars, other>>

\* view.reverse()
MapReverse ==
    /\ \E view \in Views :
          call' = [op |-> "reverse", view |-> view, outcome |-> reverse(view)]
    /\ UNCHANGED <<mapVars, wrapVars, setVars, other>>

(***************************************************************************)
(* ImmutableMap.  A wrapper is [_mapping, _reverse]: _mapping names the    *)
(* wrapped object, the OneToOneMap m, its peer or a plain dict, _reverse   *)
(* is None or the index in wrappers of the wrapper of the reverse mapping. *)
(***************************************************************************)
Delegates == Views \cup {"dict"}

\* the items of a delegate, as ImmutableMap's read methods forward them
Contents(d) == IF d = "dict" THEN plain ELSE Forward(d)

\* the dict of the reverse direction of a delegate; a plain dict has none
ReverseContents(d) == IF d = "dict" THEN EmptyDict ELSE Reverse(d)

\* isinstance(mapping, IReversibleMap)
isReversible(d) == d \in Views

\* ImmutableMap.__init__(mapping)
ImmutableMap(mapping) == [_mapping |-> mapping, _reverse |-> None]

\* dict(items)
RECURSIVE dictOf(_)
dictOf(items) ==
    IF items = <<>> THEN EmptyDict
    ELSE DictSet(dictOf(SubSeq(items, 1, Len(items) - 1)),
                 items[Len(items)][1], items[Len(items)][2])

\* an ImmutableMap that hands item assignment on to the wrapped mapping
imm_setitem_forwards(F, R, key, value) ==
    [outcome |-> "ok", F |-> DictSet(F, key, value), R |-> DictSet(R, value, key)]

(***************************************************************************)
(* w[key] = value on an ImmutableMap whose delegate holds F (and R for the *)
(* reverse direction).  The class and its bases define no __setitem__:     *)
(* Python raises TypeError("'ImmutableMap' object does not support item    *)
(* assignment").                                                           *)
(***************************************************************************)
imm_setitem(F, R, key, value) == [outcome |-> "TypeError", F |-> F, R |-> R]

\* del w[key]: no __delitem__ either
imm_delitem(F, R, key) == [outcome |-> "TypeError", F |-> F, R |-> R]

\* ImmutableMap.reverse without the back link of line 376
imm_reverse_noBackLink(ws, i) ==
    IF ws[i]._reverse = None
    THEN IF ~isReversible(ws[i]._mapping)
         THEN [outcome |-> "TypeError", ret |-> None, wrappers |-> ws]
         ELSE [outcome |-> "ok", ret |-> Len(ws) + 1,
               wrappers |-> Append([ws EXCEPT ![i]._reverse = Len(ws) + 1],
                                   ImmutableMap(reverse(ws[i]._mapping)))]
    ELSE [outcome |-> "ok", ret |-> ws[i]._reverse, wrappers |-> ws]

(***************************************************************************)
(* ImmutableMap.reverse of wrapper i of ws: the first call on a reversible *)
(* delegate makes the wrapper of delegate.reverse() and links the two.     *)
(***************************************************************************)
imm_reverse(ws, i) ==
    IF ws[i]._reverse = None
    THEN IF ~isReversible(ws[i]._mapping)
         THEN [outcome |-> "TypeError", ret |-> None, wrappers |-> ws]
         ELSE LET new == Len(ws) + 1
                  made == [ImmutableMap(reverse(ws[i]._mapping))
                              EXCEPT !._reverse = i]
              IN  [outcome |-> "ok", ret |-> new,
                   wrappers |-> Append([ws EXCEPT ![i]._reverse = new], made)]
    ELSE [outcome |-> "ok", ret |-> ws[i]._reverse, wrappers |-> ws]

\* the stores after a call through a wrapper of delegate d left F and R
WriteBack(d, F, R) ==
    /\ _forward' = IF d = "m" THEN F ELSE IF d = "peer" THEN R ELSE _forward
    /\ _reverse' = IF d = "m" THEN R ELSE IF d = "peer" THEN F ELSE _reverse
    /\ plain' = IF d = "dict" THEN F ELSE plain

\* wrappers[i][key] = value
WrapSetItem ==
    /\ \E i \in DOMAIN wrappers, key \in Objs, value \in Objs :
          LET d == wrappers[i]._mapping
              r == imm_setitem(Contents(d), ReverseContents(d), key, value)
          IN  /\ WriteBack(d, r.F, r.R)
              /\ call' = [op |-> "w.setitem", wrapper |-> i, key |-> key,
                          value |-> value, outcome |-> r.outcome,
                          F |-> _forward, R |-> _reverse, plain |-> plain]
    /\ UNCHANGED <<_peer, wrappers, setVars, other>>

\* del wrappers[i][key]
WrapDelItem ==
    /\ \E i \in DOMAIN wrappers, key \in Objs :
          LET d == wrappers[i]._mapping
              r == imm_delitem(Contents(d), ReverseContents(d), key)
          IN  /\ WriteBack(d, r.F, r.R)
              /\ call' = [op |-> "w.delitem", wrapper |-> i, key |-> key,
                          value |-> None, outcome |-> r.outcome,
                          F |-> _forward, R |-> _reverse, plain |-> plain]
    /\ UNCHANGED <<_peer, wrappers, setVars, other>>

\* wrappers[i].reverse()
WrapReverse ==
    /\ \E i \in DOMAIN wrappers :
          LET r == imm_reverse(wrappers, i) IN
          /\ wrappers' = r.wrappers
          /\ call' = [op |-> "w.reverse", wrapper |-> i,
                      outcome |-> r.outcome, ret |-> r.ret,
                      wrappers |-> wrappers]
    /\ UNCHANGED <<mapVars, plain, setVars, other>>

\* d[key] = value on the OneToOneMap d that wrapper i wraps
DelegateSetItem ==
    /\ \E i \in DOMAIN wrappers, key \in Objs, value \in Objs :
          /\ wrappers[i]._mapping \in Views
          /\ SetItem(wrappers[i]._mapping, key, value)
    /\ UNCHANGED <<_peer, wrapVars, setVars, other>>

\* del d[key] on the OneToOneMap d that wrapper i wraps
DelegateDelItem ==
    /\ \E i \in DOMAIN wrappers, key \in Objs :
          /\ wrappers[i]._mapping \in Views
          /\ DelItem(wrappers[i]._mapping, key)
    /\ UNCHANGED <<_peer, wrapVars, setVars, other>>

\* w = ImmutableMap(m), ImmutableMap(m.reverse()) or ImmutableMap({...})
InitWrapState ==
    \E d \in Delegates :
       /\ wrappers = <<ImmutableMap(d)>>
       /\ IF d = "dict"
          THEN /\ _forward = EmptyDict /\ _reverse = EmptyDict /\ _peer = initPeer
               /\ \E items \in ItemSeqs : plain = dictOf(items)
          ELSE InitMapState /\ plain = EmptyDict

(***************************************************************************)
(* SortedListSet.                                                          *)
(***************************************************************************)
MaxElem == 3        \* set elements are 0 .. MaxElem
MaxInit == 2        \* elements of the iterable handed to the constructor
MaxChanges == 2     \* add / discard calls explored after construction
MaxNew == 3         \* elements of the iterable of a constructor call
MaxScanElem == 4    \* elements of the sets of SpecScan are 0 .. MaxScanElem

Elems == 0 .. MaxElem

\* Python's 0-based list indexing: l[i]
At(l, i) == l[i + 1]

\* del l[i]
DelAt(l, i) == SubSeq(l, 1, i) \o SubSeq(l, i + 2, Len(l))

\* l.insert(i, x)
InsertAt(l, i, x) == SubSeq(l, 1, i) \o <<x>> \o SubSeq(l, i + 1, Len(l))

\* l[i] = x
SetAt(l, i, x) == [l EXCEPT ![i + 1] = x]

(***************************************************************************)
(* Key functions.  "lower" and "ident" are function objects the caller     *)
(* passes to several sets.  "lower" is str.lower of the doctests: elements *)
(* 2n and 2n+1 are the two spellings of one folded key.  "ident" gives     *)
(* every element its own key.  With key omitted each instance makes its    *)
(* own lambda x: x, an object equal to no other function.                  *)
(***************************************************************************)
KeyArgs == {"None", "lower", "ident"}

initKey(self, key) ==
    IF key # "None" THEN key
    ELSE IF self = "s" THEN "lambda_s" ELSE "lambda_other"

\* self._key(x)
keyOf(k, x) == IF k = "lower" THEN x \div 2 ELSE x

(***************************************************************************)
(* list.sort(key=...) is stable: an element goes after every element       *)
(* whose key is not greater.                                               *)
(***************************************************************************)
RECURSIVE sortInsert(_, _, _)
sortInsert(k, l, x) ==
    IF l = <<>> THEN <<x>>
    ELSE IF keyOf(k, l[Len(l)]) <= keyOf(k, x) THEN Append(l, x)
    ELSE Append(sortInsert(k, SubSeq(l, 1, Len(l) - 1), x), l[Len(l)])

RECURSIVE sort(_, _)
sort(k, l) ==
    IF l = <<>> THEN <<>>
    ELSE sortInsert(k, sort(k, SubSeq(l, 1, Len(l) - 1)), l[Len(l)])

\* the loop of lines 165-173 deleting the later element of an equal pair
RECURSIVE dedup_keepsFirst(_, _, _, _)
dedup_keepsFirst(k, l, last, i) ==
    IF i < Len(l)
    THEN IF keyOf(k, last) = keyOf(k, At(l, i))
         THEN dedup_keepsFirst(k, DelAt(l, i), last, i)
         ELSE dedup_keepsFirst(k, l, At(l, i), i + 1)
    ELSE l

(***************************************************************************)
(* SortedListSet.__init__, the loop that drops elements with equal keys.   *)
(***************************************************************************)
RECURSIVE dedup(_, _, _, _)
dedup(k, l, last, i) ==
    IF i < Len(l)
    THEN IF keyOf(k, last) = keyOf(k, At(l, i))
         THEN LET l2 == DelAt(l, i - 1) IN dedup(k, l2, At(l2, i - 1), i)
         ELSE dedup(k, l, At(l, i), i + 1)
    ELSE l

(***************************************************************************)
(* SortedListSet.__init__(iterable, key).  An iterable is the sequence of  *)
(* items it produces and the size it reports (None: not Sized).            *)
(***************************************************************************)
SortedListSet(self, iterable, key) ==
    LET k == initKey(self, key)
        n == Len(iterable.items)
        filled == IF iterable.size = None THEN "ok"
                  ELSE IF n > iterable.size THEN "IndexError"
                  ELSE IF iterable.size > n THEN "ValueError"
                  ELSE "ok"
        l == sort(k, iterable.items)
    IN  IF filled # "ok"
        THEN [outcome |-> filled, _list |-> <<>>, _key |-> k, modCount |-> 0]
        ELSE [outcome |-> "ok",
              _list |-> IF l # <<>> THEN dedup(k, l, At(l, 0), 1) ELSE l,
              _key |-> k,
              modCount |-> 0]

\* the binary search with the test of line 196 turned around
RECURSIVE bisect_flipped(_, _, _, _, _)
bisect_flipped(l, k, key, from_, to_) ==
    IF from_ < to_
    THEN LET at == (from_ + to_) \div 2
             pivot == keyOf(k, At(l, at))
         IN  IF pivot = key THEN at
             ELSE IF pivot < key THEN bisect_flipped(l, k, key, from_, at)
             ELSE bisect_flipped(l, k, key, at + 1, to_)
    ELSE from_

(***************************************************************************)
(* SortedListSet._pos(x): binary search in l between from_ and to_.        *)
(***************************************************************************)
RECURSIVE bisect(_, _, _, _, _)
bisect(l, k, key, from_, to_) ==
    IF from_ < to_
    THEN LET at == (from_ + to_) \div 2
             pivot == keyOf(k, At(l, at))
         IN  IF pivot = key THEN at
             ELSE IF pivot > key THEN bisect(l, k, key, from_, at)
             ELSE bisect(l, k, key, at + 1, to_)
    ELSE from_

_pos(l, k, x) == bisect(l, k, keyOf(k, x), 0, Len(l))

\* SortedListSet.__contains__
contains(l, k, x) ==
    LET at == _pos(l, k, x) IN Len(l) > at /\ At(l, at) = x

\* add without the equal-key branch of lines 210-214
add_alwaysInsert(l, mc, k, value) ==
    LET at == _pos(l, k, value) IN
    IF Len(l) <= at
    THEN [_list |-> Append(l, value), modCount |-> mc]
    ELSE [_list |-> InsertAt(l, at, value), modCount |-> mc + 1]

\* add that leaves an element with an equal key in place
add_keepsExisting(l, mc, k, value) ==
    LET at == _pos(l, k, value) IN
    IF Len(l) <= at
    THEN [_list |-> Append(l, value), modCount |-> mc]
    ELSE IF keyOf(k, value) = keyOf(k, At(l, at))
    THEN [_list |-> l, modCount |-> mc]
    ELSE [_list |-> InsertAt(l, at, value), modCount |-> mc + 1]

\* add without the test of lines 211-212
add_replaceAlways(l, mc, k, value) ==
    LET at == _pos(l, k, value) IN
    IF Len(l) <= at
    THEN [_list |-> Append(l, value), modCount |-> mc]
    ELSE IF keyOf(k, value) = keyOf(k, At(l, at))
    THEN [_list |-> SetAt(l, at, value), modCount |-> mc + 1]
    ELSE [_list |-> InsertAt(l, at, value), modCount |-> mc + 1]

(***************************************************************************)
(* SortedListSet.add(value) on list l with counter mc.                     *)
(***************************************************************************)
add(l, mc, k, value) ==
    LET at == _pos(l, k, value) IN
    IF Len(l) <= at
    THEN [_list |-> Append(l, value), modCount |-> mc]
    ELSE IF keyOf(k, value) = keyOf(k, At(l, at))
    THEN IF At(l, at) = value
         THEN [_list |-> l, modCount |-> mc]
         ELSE [_list |-> SetAt(l, at, value), modCount |-> mc + 1]
    ELSE [_list |-> InsertAt(l, at, value), modCount |-> mc + 1]

\* discard that compares keys where line 221 compares elements
discard_byKey(l, mc, k, value) ==
    LET at == _pos(l, k, value) IN
    IF Len(l) > at /\ keyOf(k, At(l, at)) = keyOf(k, value)
    THEN [_list |-> DelAt(l, at), modCount |-> mc + 1]
    ELSE [_list |-> l, modCount |-> mc]

(***************************************************************************)
(* SortedListSet.discard(value).                                           *)
(***************************************************************************)
discard(l, mc, k, value) ==
    LET at == _pos(l, k, value) IN
    IF Len(l) > at /\ At(l, at) = value
    THEN [_list |-> DelAt(l, at), modCount |-> mc + 1]
    ELSE [_list |-> l, modCount |-> mc]

(***************************************************************************)
(* SortedListSet.iter(from_, to_) and SortedListSet.Iterator.  The         *)
(* iterator walks a copy of the slice and remembers modCount.  History:    *)
(* born is the value of changes when the iterator was made, expected the   *)
(* elements the set then had between the arguments of iter, yielded the    *)
(* elements produced so far.                                               *)
(***************************************************************************)
NoIter == [live |-> FALSE, _modCount |-> 0, _iter |-> <<>>, born |-> 0,
           expected |-> <<>>, yielded |-> <<>>]

\* key(from_) <= key(e) < key(to_), None being no bound
InRange(k, from_, to_, e) ==
    /\ from_ = None \/ keyOf(k, from_) <= keyOf(k, e)
    /\ to_ = None \/ keyOf(k, e) < keyOf(k, to_)

\* l[from_: to_] for indexes that are not negative; a slice stops at len(l)
Slice(l, from_, to_) ==
    SubSeq(l, from_ + 1, IF to_ > Len(l) THEN Len(l) ELSE to_)

\* Iterator.__init__: iter(set_._list[from_: to_])
Iterator(l, mc, from_, to_) ==
    [_modCount |-> mc, _iter |-> Slice(l, from_, to_)]

\* iter that takes the slice up to and including the position of to_
iter_inclusiveTo(l, mc, k, from_, to_) ==
    LET fromIndex == IF from_ = None THEN 0 ELSE _pos(l, k, from_)
        toIndex == IF to_ = None THEN Len(l) ELSE _pos(l, k, to_) + 1
    IN  Iterator(l, mc, fromIndex, toIndex)

\* SortedListSet.iter(from_, to_)
iter(l, mc, k, from_, to_) ==
    LET fromIndex == IF from_ = None THEN 0 ELSE _pos(l, k, from_)
        toIndex == IF to_ = None THEN Len(l) ELSE _pos(l, k, to_)
    IN  Iterator(l, mc, fromIndex, toIndex)

\* Iterator.__next__ of iterator i while the set's counter is mc
next(i, mc) ==
    IF i._modCount # mc
    THEN [outcome |-> "RuntimeError", yield |-> None, _iter |-> i._iter]
    ELSE IF i._iter = <<>>
    THEN [outcome |-> "StopIteration", yield |-> None, _iter |-> i._iter]
    ELSE [outcome |-> "yield", yield |-> Head(i._iter), _iter |-> Tail(i._iter)]

(***************************************************************************)
(* collections.Set.__le__(self, other), the library's subset test that     *)
(* SortedListSet.__le__ and __eq__ fall back to: every element of self is  *)
(* looked up with other.__contains__.                                      *)
(***************************************************************************)
Set__le__(l, k, ol, okey) ==
    IF Len(l) > Len(ol) THEN FALSE
    ELSE \A n \in 1 .. Len(l) : contains(ol, okey, l[n])

(***************************************************************************)
(* SortedListSet.__le__, the test that sends the call to the library:      *)
(* 100 < olen and 2 * len_ * log2(olen) < olen, or the key functions       *)
(* differ.  2 * len_ * log2(olen) < olen is olen ^ (2 * len_) < 2 ^ olen.  *)
(***************************************************************************)
LinearScanLimit == 100

RECURSIVE Pow(_, _)
Pow(b, e) == IF e = 0 THEN 1 ELSE b * Pow(b, e - 1)

fallsBack(len_, olen, k, okey) ==
    \/ LinearScanLimit < olen /\ Pow(olen, 2 * len_) < Pow(2, olen)
    \/ k # okey

(***************************************************************************)
(* SortedListSet.__le__, the linear scan: n counts the items of self       *)
(* taken so far by the for loop, i is the index into other._list.          *)
(***************************************************************************)
RECURSIVE skip(_, _, _, _)
skip(ol, k, mykey, i) ==
    IF i < Len(ol) /\ mykey > keyOf(k, At(ol, i))
    THEN skip(ol, k, mykey, i + 1)
    ELSE i

RECURSIVE scan(_, _, _, _, _)
scan(l, ol, k, n, i) ==
    IF n >= Len(l) THEN "True"
    ELSE IF i >= Len(ol) THEN "IndexError"
    ELSE LET item == At(l, n) IN
         IF item = At(ol, i) THEN scan(l, ol, k, n + 1, i + 1)
         ELSE LET mykey == keyOf(k, item)
                  otherkey == keyOf(k, At(ol, i))
              IN  IF mykey <= otherkey THEN "False"
                  ELSE LET j == skip(ol, k, mykey, i + 1) IN
                       IF j >= Len(ol) THEN "False"
                       ELSE scan(l, ol, k, n + 1, j)

\* self <= other for two SortedListSet instances
le(l, k, ol, okey) ==
    IF Len(l) > Len(ol) THEN "False"
    ELSE IF fallsBack(Len(l), Len(ol), k, okey)
    THEN IF Set__le__(l, k, ol, okey) THEN "True" ELSE "False"
    ELSE scan(l, ol, k, 0, 0)

\* self == other for two SortedListSet instances
eq(l, k, ol, okey) ==
    IF k # okey
    THEN IF Set__le__(l, k, ol, okey) THEN "True" ELSE "False"
    ELSE IF Len(l) # Len(ol) THEN "False"
    ELSE IF \E n \in 1 .. Len(l) : l[n] # ol[n] THEN "False"
    ELSE "True"

(***************************************************************************)
(* Calls on the set s.                                                     *)
(***************************************************************************)
Iterables ==
    {[items |-> q, size |-> n] :
        q \in UNION {[1 .. m -> Elems] : m \in 0 .. MaxInit},
        n \in {None} \cup (0 .. MaxInit)}

InitSetState ==
    /\ \E iterable \in Iterables, key \in KeyArgs :
          LET r == SortedListSet("s", iterable, key) IN
          /\ r.outcome = "ok"
          /\ _list = r._list
          /\ modCount = r.modCount
          /\ _key = r._key
    /\ changes = 0
    /\ it = NoIter

InitOther ==
    \E iterable \in Iterables, key \in KeyArgs :
       LET r == SortedListSet("other", iterable, key) IN
       /\ r.outcome = "ok"
       /\ other = [_list |-> r._list, modCount |-> r.modCount, _key |-> r._key]

\* the iterables handed to the constructor calls
NewIterables ==
    {[items |-> q, size |-> n] :
        q \in UNION {[1 .. m -> Elems] : m \in 0 .. MaxNew},
        n \in {None} \cup (0 .. MaxNew)}

\* lists of distinct elements in ascending order
ScanIterables ==
    {[items |-> q, size |-> Len(q)] :
        q \in {q \in UNION {[1 .. m -> 0 .. MaxScanElem] : m \in 0 .. MaxNew} :
                  \A n \in 1 .. Len(q) - 1 : q[n] < q[n + 1]}}

\* s = SortedListSet(iterable, key); other = SortedListSet(iterable, key)
InitScanState ==
    /\ \E iterable \in ScanIterables, key \in KeyArgs :
          LET r == SortedListSet("s", iterable, key) IN
          /\ _list = r._list
          /\ modCount = r.modCount
          /\ _key = r._key
    /\ changes = 0
    /\ it = NoIter
    /\ \E iterable \in ScanIterables, key \in KeyArgs :
          LET r == SortedListSet("other", iterable, key) IN
          other = [_list |-> r._list, modCount |-> r.modCount, _key |-> r._key]

\* s = SortedListSet(iterable, key): __init__ runs once, on the object being
\* made; a constructor that raises leaves s unbound
SetNew ==
    /\ call = NoCall
    /\ \E iterable \in NewIterables, key \in KeyArgs :
          LET r == SortedListSet("s", iterable, key) IN
          /\ IF r.outcome = "ok"
             THEN /\ _list' = r._list
                  /\ modCount' = r.modCount
                  /\ _key' = r._key
                  /\ changes' = 0
                  /\ it' = NoIter
             ELSE UNCHANGED setVars
          /\ call' = [op |-> "new", iterable |-> iterable, key |-> key,
                      outcome |-> r.outcome]
    /\ UNCHANGED <<other, mapVars, wrapVars>>

\* s.add(value)
SetAdd ==
    /\ changes < MaxChanges
    /\ \E value \in Elems :
          LET r == add(_list, modCount, _key, value) IN
          /\ _list' = r._list
          /\ modCount' = r.modCount
          /\ changes' = IF r._list # _list THEN changes + 1 ELSE changes
          /\ call' = [op |-> "add", value |-> value, outcome |-> "ok",
                      _list |-> _list, modCount |-> modCount]
    /\ UNCHANGED <<_key, it, other, mapVars, wrapVars>>

\* s.discard(value)
SetDiscard ==
    /\ changes < MaxChanges
    /\ \E value \in Elems :
          LET r == discard(_list, modCount, _key, value) IN
          /\ _list' = r._list
          /\ modCount' = r.modCount
          /\ changes' = IF r._list # _list THEN changes + 1 ELSE changes
          /\ call' = [op |-> "discard", value |-> value, outcome |-> "ok",
                      _list |-> _list, modCount |-> modCount]
    /\ UNCHANGED <<_key, it, other, mapVars, wrapVars>>

\* value in s
SetContains ==
    /\ \E value \in Elems :
          call' = [op |-> "contains", value |-> value,
                   at |-> _pos(_list, _key, value),
                   outcome |-> contains(_list, _key, value)]
    /\ UNCHANGED <<setVars, other, mapVars, wrapVars>>

\* it = s.iter(from_, to_)
SetIter ==
    /\ \E from_ \in {None} \cup Elems, to_ \in {None} \cup Elems :
          LET r == iter(_list, modCount, _key, from_, to_)
              wanted(e) == InRange(_key, from_, to_, e)
          IN
          /\ it' = [live |-> TRUE, _modCount |-> r._modCount,
                    _iter |-> r._iter, born |-> changes,
                    expected |-> SelectSeq(_list, wanted), yielded |-> <<>>]
          /\ call' = [op |-> "iter", from_ |-> from_, to_ |-> to_,
                      outcome |-> "ok"]
    /\ UNCHANGED <<_list, modCount, _key, changes, other, mapVars, wrapVars>>

\* next(it)
SetIterNext ==
    /\ it.live
    /\ LET r == next(it, modCount) IN
       /\ it' = [it EXCEPT !._iter = r._iter,
                           !.yielded = IF r.outcome = "yield"
                                       THEN Append(@, r.yield) ELSE @]
       /\ call' = [op |-> "next", outcome |-> r.outcome, yield |-> r.yield,
                   stale |-> it.born # changes]
    /\ UNCHANGED <<_list, modCount, _key, changes, other, mapVars, wrapVars>>

(***************************************************************************)
(* Calls that involve the second set.                                      *)
(***************************************************************************)
\* other.add(value)
OtherAdd ==
    /\ other.modCount < MaxChanges
    /\ \E value \in Elems :
          LET r == add(other._list, other.modCount, other._key, value) IN
          /\ other' = [other EXCEPT !._list = r._list,
                                    !.modCount = r.modCount]
          /\ call' = [op |-> "other.add", value |-> value, outcome |-> "ok"]
    /\ UNCHANGED <<setVars, mapVars, wrapVars>>

\* s <= other
CmpLe ==
    /\ call' = [op |-> "le",
                outcome |-> le(_list, _key, other._list, other._key)]
    /\ UNCHANGED <<setVars, other, mapVars, wrapVars>>

\* s == other
CmpEq ==
    /\ call' = [op |-> "eq",
                outcome |-> eq(_list, _key, other._list, other._key)]
    /\ UNCHANGED <<setVars, other, mapVars, wrapVars>>

(***************************************************************************)
(* Specifications.                                                         *)
(***************************************************************************)
IdleMap == _forward = EmptyDict /\ _reverse = EmptyDict /\ _peer = initPeer

IdleWrap == wrappers = <<>> /\ plain = EmptyDict

IdleSet ==
    /\ _list = <<>>
    /\ modCount = 0
    /\ _key = "lambda_s"
    /\ changes = 0
    /\ it = NoIter

IdleOther == other = [_list |-> <<>>, modCount |-> 0, _key |-> "lambda_other"]

InitMap == InitMapState /\ IdleWrap /\ IdleSet /\ IdleOther /\ call = NoCall

NextMap == MapSetItem \/ MapDelItem \/ MapReverse

SpecMap == InitMap /\ [][NextMap]_vars

InitWrap == InitWrapState /\ IdleSet /\ IdleOther /\ call = NoCall

NextWrap ==
    \/ DelegateSetItem
    \/ DelegateDelItem
    \/ WrapSetItem
    \/ WrapDelItem
    \/ WrapReverse

SpecWrap == InitWrap /\ [][NextWrap]_vars

InitSet == IdleMap /\ IdleWrap /\ InitSetState /\ IdleOther /\ call = NoCall

NextSet == SetAdd \/ SetDiscard \/ SetContains

SpecSet == InitSet /\ [][NextSet]_vars

NextIter == SetAdd \/ SetDiscard \/ SetIter \/ SetIterNext

SpecIter == InitSet /\ [][NextIter]_vars

InitNew == IdleMap /\ IdleWrap /\ IdleSet /\ IdleOther /\ call = NoCall

NextNew == SetNew

SpecNew == InitNew /\ [][NextNew]_vars

InitCmp == IdleMap /\ IdleWrap /\ InitSetState /\ InitOther /\ call = NoCall

NextCmp == SetAdd \/ SetDiscard \/ OtherAdd \/ CmpLe \/ CmpEq

SpecCmp == InitCmp /\ [][NextCmp]_vars

InitScan == IdleMap /\ IdleWrap /\ InitScanState /\ call = NoCall

NextScan == CmpLe

SpecScan == InitScan /\ [][NextScan]_vars

(***************************************************************************)
(* Properties.                                                             *)
(***************************************************************************)
Range(l) == {l[n] : n \in 1 .. Len(l)}

\* SortedListSet.__len__
setLen == Len(_list)

(* C1: after construction and after any add / discard calls the backing    *)
(* sequence of s is in strictly ascending key order, so no two elements    *)
(* have equal keys, and len(s) is the number of elements it holds.         *)
C1_StrictlyAscending ==
    /\ \A n \in 1 .. Len(_list) - 1 :
          keyOf(_key, _list[n]) < keyOf(_key, _list[n + 1])
    /\ setLen = Cardinality(Range(_list))
    /\ setLen = Cardinality({keyOf(_key, e) : e \in Range(_list)})

\* an element has been put between two others, after an earlier change
C1_Witness ==
    /\ call.op = "add"
    /\ changes >= 2
    /\ \E n \in 2 .. Len(_list) - 1 :
          _list[n] = call.value /\ call._list = DelAt(_list, n - 1)

(* C2: after any assignments and deletions, successful or failing, made    *)
(* through m or through m.reverse(), the two views are inverses of each    *)
(* other: m[k] == v iff m.reverse()[v] == k, len(m) == len(m.reverse()),   *)
(* and no two keys map to the same value.                                  *)
C2_ViewsAreInverse ==
    /\ \A k \in Objs, v \in Objs :
          (k \in DOMAIN Forward("m") /\ Forward("m")[k] = v)
             <=> (v \in DOMAIN Forward("peer") /\ Forward("peer")[v] = k)
    /\ len("m") = len("peer")
    /\ \A k1 \in DOMAIN Forward("m"), k2 \in DOMAIN Forward("m") :
          Forward("m")[k1] = Forward("m")[k2] => k1 = k2

\* an assignment through the peer has failed on a map of two pairs
C2_Witness ==
    /\ call.op = "setitem"
    /\ call.view = "peer"
    /\ call.outcome # "ok"
    /\ len("m") = 2

(* C3: an iterator of s that is advanced after an add or a discard has     *)
(* changed the set since the iterator was made raises the                  *)
(* concurrent-modification error (RuntimeError) and yields nothing.        *)
C3_StaleIteratorRaises ==
    (call.op = "next" /\ call.stale) => call.outcome = "RuntimeError"

(* C4: modCount starts at zero and equals the number of add / discard      *)
(* calls that have changed the backing sequence since creation, an add     *)
(* that appends included.                                                  *)
C4_ModCountCountsChanges == modCount = changes

(* C5: for two sets that share a key function, s <= other is true iff      *)
(* every element of s is an element of other.                              *)
C5_LeIsSubset ==
    (call.op = "le" /\ _key = other._key)
        => call.outcome = IF Range(_list) \subseteq Range(other._list)
                          THEN "True" ELSE "False"

(* C6: s == other is true iff the two sets have the same size and the      *)
(* same elements, whether or not they share a key function.                *)
C6_EqIsSameElements ==
    call.op = "eq"
        => call.outcome = IF /\ Len(_list) = Len(other._list)
                             /\ Range(_list) = Range(other._list)
                          THEN "True" ELSE "False"

(* C7: view[k] = v where v is already mapped to another key fails with     *)
(* ValueError and leaves both stores as they were.                         *)
C7_ValueConflictIsValueError ==
    (/\ call.op = "setitem"
     /\ call.value \in DOMAIN call.R
     /\ call.R[call.value] # call.key)
        => /\ call.outcome = "ValueError"
           /\ Forward(call.view) = call.F
           /\ Reverse(call.view) = call.R

(* C8: view[k] = v where k is already mapped to another value, and v is    *)
(* not owned by another key, fails with KeyError and leaves both stores    *)
(* as they were.                                                           *)
C8_KeyConflictIsKeyError ==
    (/\ call.op = "setitem"
     /\ call.key \in DOMAIN call.F
     /\ call.F[call.key] # call.value
     /\ call.value \notin DOMAIN call.R)
        => /\ call.outcome = "KeyError"
           /\ Forward(call.view) = call.F
           /\ Reverse(call.view) = call.R

(* C9: view[k] = v on a map that already holds the pair (k, v) succeeds    *)
(* and leaves both stores unchanged; when k and v are both absent it       *)
(* succeeds, adds exactly (k, v) to the forward store and (v, k) to the    *)
(* reverse store, and leaves every other pair as it was.                   *)
C9_SetItemFrame ==
    /\ (/\ call.op = "setitem"
        /\ call.key \in DOMAIN call.F
        /\ call.F[call.key] = call.value
        /\ call.value \in DOMAIN call.R
        /\ call.R[call.value] = call.key)
           => /\ call.outcome = "ok"
              /\ Forward(call.view) = call.F
              /\ Reverse(call.view) = call.R
    /\ (/\ call.op = "setitem"
        /\ call.key \notin DOMAIN call.F
        /\ call.value \notin DOMAIN call.R)
           => /\ call.outcome = "ok"
              /\ DOMAIN Forward(call.view) = DOMAIN call.F \cup {call.key}
              /\ DOMAIN Reverse(call.view) = DOMAIN call.R \cup {call.value}
              /\ Forward(call.view)[call.key] = call.value
              /\ Reverse(call.view)[call.value] = call.key
              /\ \A k \in DOMAIN call.F : Forward(call.view)[k] = call.F[k]
              /\ \A v \in DOMAIN call.R : Reverse(call.view)[v] = call.R[v]

\* a new pair has been added through the peer to a map that held a pair
C9_Witness ==
    /\ call.op = "setitem"
    /\ call.view = "peer"
    /\ call.key \notin DOMAIN call.F
    /\ call.value \notin DOMAIN call.R
    /\ call.F # EmptyDict
    /\ call.outcome = "ok"

(* C10: after del view[k] on a map that maps k to v, k is not in the view, *)
(* v is not in its reverse, and every other pair is still in both.         *)
C10_DelItemRemovesPair ==
    (call.op = "delitem" /\ call.key \in DOMAIN call.F)
        => /\ call.outcome = "ok"
           /\ call.key \notin DOMAIN Forward(call.view)
           /\ call.F[call.key] \notin DOMAIN Reverse(call.view)
           /\ \A k \in DOMAIN call.F \ {call.key} :
                 /\ k \in DOMAIN Forward(call.view)
                 /\ Forward(call.view)[k] = call.F[k]
                 /\ call.F[k] \in DOMAIN Reverse(call.view)
                 /\ Reverse(call.view)[call.F[k]] = k

\* a pair has been deleted from a map that held another pair
C10_Witness ==
    /\ call.op = "delitem"
    /\ call.key \in DOMAIN call.F
    /\ Cardinality(DOMAIN call.F) = 2
    /\ len(call.view) = 1

(* C11: del view[k] on a map that does not contain k fails with KeyError   *)
(* and leaves the forward and the reverse store as they were.              *)
C11_DelAbsentIsKeyError ==
    (call.op = "delitem" /\ call.key \notin DOMAIN call.F)
        => /\ call.outcome = "KeyError"
           /\ Forward(call.view) = call.F
           /\ Reverse(call.view) = call.R

\* an absent key has been deleted through the peer from a map of two pairs,
\* the key being a key of the other view
C11_Witness ==
    /\ call.op = "delitem"
    /\ call.view = "peer"
    /\ call.key \notin DOMAIN call.F
    /\ call.key \in DOMAIN call.R
    /\ Cardinality(DOMAIN call.F) = 2

(* C12: at any point in the life of a OneToOneMap, reverse() returns the   *)
(* peer made at construction, the same object on every call and never a    *)
(* new one; the peer is another object than the map, and                   *)
(* m.reverse().reverse() is m.                                             *)
C12_ReverseIsThePeer ==
    /\ [](/\ \A view \in Views :
                /\ reverse(view) \in Views
                /\ reverse(view) # view
                /\ reverse(reverse(view)) = view
          /\ call.op = "reverse" => call.outcome = reverse(call.view))
    /\ [][\A view \in Views : reverse(view)' = reverse(view)]_vars

\* reverse() has been called on the peer of a map that holds two pairs
C12_Witness ==
    /\ call.op = "reverse"
    /\ call.view = "peer"
    /\ call.outcome = "m"
    /\ len("m") = 2

(* C13: if s contains a and add(b) is called with key(a) == key(b) and     *)
(* a != b, then afterwards len(s) is unchanged, b is contained, a is not,  *)
(* and every other element is where it was.                                *)
C13_AddReplaces ==
    call.op = "add" =>
        \A n \in 1 .. Len(call._list) :
            (/\ keyOf(_key, call._list[n]) = keyOf(_key, call.value)
             /\ call._list[n] # call.value)
                => /\ setLen = Len(call._list)
                   /\ contains(_list, _key, call.value)
                   /\ ~contains(_list, _key, call._list[n])
                   /\ call._list[n] \notin Range(_list)
                   /\ \A m \in (1 .. Len(call._list)) \ {n} :
                         _list[m] = call._list[m]

\* the first element of two has been replaced by one with the same key
C13_Witness ==
    /\ call.op = "add"
    /\ Len(call._list) = 2
    /\ keyOf(_key, call._list[1]) = keyOf(_key, call.value)
    /\ call._list[1] # call.value
    /\ _list[1] = call.value
    /\ modCount = call.modCount + 1

(* C14: add(x) on a set that already contains an element equal to x leaves *)
(* the backing sequence and modCount unchanged, wherever x sits.           *)
C14_AddIsIdempotent ==
    (call.op = "add" /\ call.value \in Range(call._list))
        => /\ _list = call._list
           /\ modCount = call.modCount

\* the element added again is the last of two or more
C14_Witness ==
    /\ call.op = "add"
    /\ Len(call._list) >= 2
    /\ call._list[Len(call._list)] = call.value
    /\ modCount >= 1

(* C19: discard(x) removes exactly the element equal to x and increments   *)
(* modCount when x is contained; when x is not contained, also when an     *)
(* element with the same key is, the sequence and modCount are unchanged.  *)
C19_DiscardFrame ==
    call.op = "discard" =>
        IF call.value \in Range(call._list)
        THEN /\ _list = SelectSeq(call._list, LAMBDA e : e # call.value)
             /\ modCount = call.modCount + 1
        ELSE /\ _list = call._list
             /\ modCount = call.modCount

\* discard of an absent element whose key is the key of an element of s
C19_Witness ==
    /\ call.op = "discard"
    /\ call.value \notin Range(call._list)
    /\ \E e \in Range(call._list) : keyOf(_key, e) = keyOf(_key, call.value)
    /\ Len(_list) >= 2

(* C20: the binary-search position p of any x satisfies 0 <= p <= len,     *)
(* every element before p has a key < key(x) and every element from p on   *)
(* has a key >= key(x); x in s is true iff some element of the backing     *)
(* sequence equals x.                                                      *)
C20_PosIsLowerBound ==
    call.op = "contains" =>
        /\ call.at \in 0 .. Len(_list)
        /\ \A n \in 1 .. call.at :
              keyOf(_key, _list[n]) < keyOf(_key, call.value)
        /\ \A n \in call.at + 1 .. Len(_list) :
              keyOf(_key, _list[n]) >= keyOf(_key, call.value)
        /\ call.outcome = (call.value \in Range(_list))

\* a query whose key is in s while the query itself is not, among two
C20_Witness ==
    /\ call.op = "contains"
    /\ Len(_list) = 2
    /\ call.at = 1
    /\ keyOf(_key, _list[2]) = keyOf(_key, call.value)
    /\ call.outcome = FALSE
    /\ changes >= 1

(* C15: on a set that is not modified during the traversal, iter(from,   *)
(* to) yields in ascending key order, and then stops, exactly the elements *)
(* e with key(from) <= key(e) < key(to); an omitted from is no lower       *)
(* bound, an omitted to no upper bound.                                    *)
C15_RangeIteration ==
    (it.live /\ it.born = changes /\ call.op = "next") =>
        /\ call.outcome \in {"yield", "StopIteration"}
        /\ call.outcome = "StopIteration" => it.yielded = it.expected
        /\ call.outcome = "yield" =>
              /\ Len(it.yielded) \in 1 .. Len(it.expected)
              /\ it.yielded = SubSeq(it.expected, 1, Len(it.yielded))
              /\ call.yield = it.expected[Len(it.yielded)]

\* a traversal bounded on both sides has yielded two elements and stopped
C15_Witness ==
    /\ it.live
    /\ it.born = changes
    /\ changes >= 1
    /\ call.op = "next"
    /\ call.outcome = "StopIteration"
    /\ Len(it.yielded) = 2
    /\ Len(_list) = 4
    /\ it.yielded = SubSeq(_list, 2, 3)

(* C16: constructing a SortedListSet from an iterable that reports its     *)
(* size fails with ValueError whenever the number of elements it produces  *)
(* differs from the reported size, be it fewer or more.                    *)
C16_SizeMismatchIsValueError ==
    (/\ call.op = "new"
     /\ call.iterable.size # None
     /\ call.iterable.size # Len(call.iterable.items))
        => call.outcome = "ValueError"

(* C17: every item assignment or deletion attempted through an            *)
(* ImmutableMap, or through the wrapper its reverse() returns, fails with  *)
(* the unsupported-operation error (TypeError) and leaves the contents of  *)
(* the wrapped mapping unchanged.                                          *)
C17_WrapperRejectsWrites ==
    call.op \in {"w.setitem", "w.delitem"}
        => /\ call.outcome = "TypeError"
           /\ _forward = call.F
           /\ _reverse = call.R
           /\ plain = call.plain

\* a key of the reverse mapping has been deleted through the wrapper that
\* reverse() returned
C17_Witness ==
    /\ call.op = "w.delitem"
    /\ call.wrapper = 2
    /\ wrappers[1]._reverse = 2
    /\ call.key \in DOMAIN Contents(wrappers[2]._mapping)
    /\ Cardinality(DOMAIN Contents(wrappers[2]._mapping)) = 2

(* C18: reverse() of an ImmutableMap around a reversible mapping returns   *)
(* the same wrapper on every call, the contents of that wrapper are the    *)
(* reverse mapping of the delegate, and its reverse() is the first wrapper *)
(* again; around a mapping that is not reversible reverse() fails with     *)
(* TypeError and leaves the wrapper as it was.                             *)
C18_WrapperReverse ==
    /\ \A i \in DOMAIN wrappers :
          wrappers[i]._reverse # None =>
             LET r == wrappers[i]._reverse IN
             /\ r \in DOMAIN wrappers
             /\ r # i
             /\ wrappers[r]._reverse = i
             /\ Contents(wrappers[r]._mapping)
                   = ReverseContents(wrappers[i]._mapping)
    /\ call.op = "w.reverse" =>
          IF isReversible(wrappers[call.wrapper]._mapping)
          THEN /\ call.outcome = "ok"
               /\ call.ret = wrappers[call.wrapper]._reverse
               /\ call.ret # None
               /\ call.wrappers[call.wrapper]._reverse # None
                     => call.ret = call.wrappers[call.wrapper]._reverse
               /\ Len(wrappers) = 2
          ELSE /\ call.outcome = "TypeError"
               /\ wrappers = call.wrappers

\* reverse() has been called again on the wrapper that reverse() returned,
\* after the delegate was changed
C18_Witness ==
    /\ call.op = "w.reverse"
    /\ call.wrapper = 2
    /\ call.ret = 1
    /\ call.wrappers = wrappers
    /\ len("m") = 2

(* C21: a SortedListSet constructed from an initial collection holds,    *)
(* for each distinct key occurring in the collection, exactly one element: *)
(* the one produced last by the collection among the elements with that    *)
(* key; the list is sorted by key and the modification counter is zero.    *)
C21_ConstructorKeepsLast ==
    (call.op = "new" /\ call.outcome = "ok") =>
        LET items == call.iterable.items
            k == initKey("s", call.key)
            keys == {keyOf(k, items[n]) : n \in DOMAIN items}
            lastOf(key) ==
                items[CHOOSE n \in DOMAIN items :
                         /\ keyOf(k, items[n]) = key
                         /\ \A m \in DOMAIN items :
                               m > n => keyOf(k, items[m]) # key]
        IN  /\ _key = k
            /\ Len(_list) = Cardinality(keys)
            /\ \A key \in keys : lastOf(key) \in Range(_list)
            /\ \A n \in 1 .. Len(_list) - 1 :
                  keyOf(k, _list[n]) < keyOf(k, _list[n + 1])
            /\ modCount = 0

\* three elements that were not produced in key order, the first two of
\* them different spellings of one key, have been reduced to two
C21_Witness ==
    /\ call.op = "new"
    /\ call.outcome = "ok"
    /\ call.key = "lower"
    /\ call.iterable.size = 3
    /\ LET items == call.iterable.items IN
       /\ Len(items) = 3
       /\ items[1] # items[3]
       /\ keyOf("lower", items[1]) = keyOf("lower", items[3])
       /\ keyOf("lower", items[2]) < keyOf("lower", items[1])
       /\ _list = <<items[2], items[3]>>

(* C22: for two SortedListSet instances that share a key function,        *)
(* s <= other ends with a boolean result: the linear scan never reads      *)
(* other._list at an index outside 0 .. len(other) - 1, also when the last *)
(* element of other has been matched and elements of s remain.             *)
C22_LeReturnsBoolean ==
    (call.op = "le" /\ _key = other._key)
        => call.outcome \in {"True", "False"}

====
